---- MODULE Spec2Model ----
(***************************************************************************)
(* Model of the ZK proof worker (src/prove.worker.js): the circuit-input   *)
(* normalizer buildCircuitInput, the proving-key retrieval fetchZkeyBytes  *)
(* over the Cache API, and the message handler self.onmessage.             *)
(***************************************************************************)
EXTENDS Integers, Sequences, FiniteSets, TLC

VARIABLES
    \* ---- the normalizer, exercised on its own (SpecNorm) ----
    nMoves,      \* the moves argument of buildCircuitInput
    nPuzzle,     \* the puzzle argument
    nTick,       \* the tick_count argument
    nOut,        \* [called |-> FALSE], or the value buildCircuitInput returned
    \* ---- the worker (Spec) ----
    inbox,       \* message events queued for the worker, oldest first
    sent,        \* number of messages the caller has posted
    delivered,   \* number of message events handed to self.onmessage
    pc,          \* per request: where its async handler invocation stands
    data,        \* per request: e.data
    input,       \* per request: the value of `input` (line 153)
    res,         \* per request: the Response of fetch (line 43)
    zkeyBytes,   \* per request: the value of `zkeyBytes` (line 156)
    cache,       \* the Cache API entry for ZKEY_PATH in ZKEY_CACHE_NAME
    server,      \* the bytes served at ZKEY_PATH
    posted,      \* the messages given to self.postMessage, oldest first
    \* ---- history of each handler invocation ----
    stages,      \* per request: the stages it went through
    fetches,     \* per request: calls of fetch(ZKEY_PATH)
    puts,        \* per request: the bodies it wrote with cache.put
    proveCalls,  \* per request: calls of snarkjs.groth16.fullProve
    thrown,      \* per request: the value that reached the catch clause
    afterFirst,  \* per request: a retrieval had completed when it was delivered
    lookup,      \* per request: what cache.match found
    firstBytes   \* the bytes returned by the first completed retrieval

normVars == <<nMoves, nPuzzle, nTick, nOut>>
workerVars == <<inbox, sent, delivered, pc, data, input, res, zkeyBytes, cache,
                server, posted>>
histVars == <<stages, fetches, puts, proveCalls, thrown, afterFirst, lookup,
              firstBytes>>
vars == <<normVars, workerVars, histVars>>

----------------------------------------------------------------------------
(* JavaScript values *)

Undefined == [t |-> "undefined"]
Null == [t |-> "null"]
Num(n) == [t |-> "number", v |-> n]
Str(s) == [t |-> "string", v |-> s]
Arr(s) == [t |-> "array", v |-> s]
\* An object that has a `message` property (an Error, or any thrown object).
Obj(m) == [t |-> "object", message |-> m]

\* ToBoolean, as `||` and `if` apply it.
Truthy(v) ==
    CASE v.t = "undefined" -> FALSE
      [] v.t = "null" -> FALSE
      [] v.t = "number" -> v.v # 0
      [] v.t = "string" -> v.v # ""
      [] OTHER -> TRUE

\* a || b
Or(a, b) == IF Truthy(a) THEN a ELSE b

Digit(d) ==
    CASE d = 0 -> "0" [] d = 1 -> "1" [] d = 2 -> "2" [] d = 3 -> "3"
      [] d = 4 -> "4" [] d = 5 -> "5" [] d = 6 -> "6" [] d = 7 -> "7"
      [] d = 8 -> "8" [] d = 9 -> "9"

RECURSIVE DecStr(_)
\* Number::toString of an integer: its decimal digits, with a sign if negative.
DecStr(n) ==
    IF n < 0 THEN "-" \o DecStr(0 - n)
    ELSE IF n < 10 THEN Digit(n)
    ELSE DecStr(n \div 10) \o Digit(n % 10)

\* String(v)
String(v) ==
    CASE v.t = "number" -> DecStr(v.v)
      [] v.t = "string" -> v.v
      [] v.t = "undefined" -> "undefined"
      [] v.t = "null" -> "null"
      [] OTHER -> "[object Object]"

----------------------------------------------------------------------------
(* buildCircuitInput *)

WALLS_CAPACITY == 26
TNT_CAPACITY == 8
BARREL_SLOTS == 2
PATH_CAPACITY == 16
DEFAULT_GRID_WIDTH == 11
DEFAULT_GRID_HEIGHT == 7

\* [String(c.x), String(c.y)]
Pair(c) == <<String(c.x), String(c.y)>>

\* for (const w of list) out.push([String(w.x), String(w.y)])
RECURSIVE PushAll(_, _)
PushAll(out, list) ==
    IF list = <<>> THEN out
    ELSE PushAll(Append(out, Pair(Head(list))), Tail(list))

\* Mutant of PadTo: the loop tests `<=`, and pushes one entry too many.
RECURSIVE PadToInclusive(_, _, _)
PadToInclusive(out, n, oob) ==
    IF Len(out) <= n THEN PadToInclusive(Append(out, oob), n, oob) ELSE out

\* while (out.length < n) out.push(OOB.slice())
RECURSIVE PadTo(_, _, _)
PadTo(out, n, oob) ==
    IF Len(out) < n THEN PadTo(Append(out, oob), n, oob) ELSE out

\* (list || [])
OrEmpty(list) == IF Truthy(list) THEN list.v ELSE <<>>

\* Mutant of BarrelSlot: the length is taken after the padding, not before.
BarrelSlotPaddedLength(barrels, b, oob) ==
    IF b <= Len(barrels) /\ Truthy(barrels[b].path)
    THEN LET path == PadTo(PushAll(<<>>, barrels[b].path.v), PATH_CAPACITY, oob)
         IN  [len |-> DecStr(Len(path)), path |-> path]
    ELSE [len |-> "1", path |-> PadTo(<<>>, PATH_CAPACITY, oob)]

\* The body of the loop over the barrel slots, for slot b (1-based here).
BarrelSlot(barrels, b, oob) ==
    IF b <= Len(barrels) /\ Truthy(barrels[b].path)
    THEN [len |-> DecStr(Len(barrels[b].path.v)),
          path |-> PadTo(PushAll(<<>>, barrels[b].path.v), PATH_CAPACITY, oob)]
    ELSE [len |-> "1", path |-> PadTo(<<>>, PATH_CAPACITY, oob)]

\* Whether buildCircuitInput throws a TypeError: a start or goal that is not an
\* object (lines 121-124), or moves that has no map (line 116).
BuildThrows(moves, puzzle) ==
    \/ moves.t # "array"
    \/ puzzle.knight_a_start.t = "undefined"
    \/ puzzle.knight_b_start.t = "undefined"
    \/ puzzle.goal_a.t = "undefined"
    \/ puzzle.goal_b.t = "undefined"

buildCircuitInput(moves, puzzle, tick_count) ==
    LET grid_width == Or(puzzle.grid_width, Num(DEFAULT_GRID_WIDTH))
        grid_height == Or(puzzle.grid_height, Num(DEFAULT_GRID_HEIGHT))
        OOB == <<String(grid_width), String(grid_height)>>
        barrels == OrEmpty(puzzle.moving_barrels)
        slots == [b \in 1..BARREL_SLOTS |-> BarrelSlot(barrels, b, OOB)]
    IN  [grid_width |-> String(grid_width),
         grid_height |-> String(grid_height),
         knight_a_start |-> Pair(puzzle.knight_a_start),
         knight_b_start |-> Pair(puzzle.knight_b_start),
         goal_a |-> Pair(puzzle.goal_a),
         goal_b |-> Pair(puzzle.goal_b),
         walls |-> PadTo(PushAll(<<>>, OrEmpty(puzzle.walls)), WALLS_CAPACITY, OOB),
         static_tnt |->
             PadTo(PushAll(<<>>, OrEmpty(puzzle.static_tnt)), TNT_CAPACITY, OOB),
         barrel_paths |-> [b \in 1..BARREL_SLOTS |-> slots[b].path],
         barrel_path_lengths |-> [b \in 1..BARREL_SLOTS |-> slots[b].len],
         tick_count |-> String(tick_count),
         puzzle_id |-> String(puzzle.id),
         moves |-> [i \in 1..Len(moves.v) |-> String(moves.v[i])]]

----------------------------------------------------------------------------
(* The puzzles the normalizer is exercised on *)

MaxWalls == 27
MaxTnt == 9
MaxBarrels == 3
MaxPathLen == 17
MovesLen == 3
Coord(x, y) == [t |-> "object", x |-> Num(x), y |-> Num(y)]

\* The i-th coordinate of list s: consecutive entries differ, the lists differ,
\* and x reaches 10.
CoordAt(i, s) == Coord((3 * i + s) % 11, (i + 2 * s) % 7)

CoordList(k, s) == Arr([i \in 1..k |-> CoordAt(i, s)])

Barrel(path) == [t |-> "object", path |-> path]

WallLists == {Undefined} \cup {CoordList(k, 0) : k \in 0..MaxWalls}
TntLists == {Undefined} \cup {CoordList(k, 1) : k \in 0..MaxTnt}
PathChoices == {Undefined} \cup {CoordList(n, 2) : n \in 0..MaxPathLen}

\* Lists of n barrels: the first BARREL_SLOTS paths range over PathChoices, the
\* barrels after them (which no slot reads) have a one-step path.
BarrelListsOf(n) ==
    LET m == IF n < BARREL_SLOTS THEN n ELSE BARREL_SLOTS
    IN  {Arr([b \in 1..n |-> Barrel(IF b <= m THEN f[b] ELSE CoordList(1, 3))]) :
            f \in [1..m -> PathChoices]}

BarrelLists == {Undefined} \cup UNION {BarrelListsOf(n) : n \in 0..MaxBarrels}

GridChoices ==
    {<<Undefined, Undefined>>,
     <<Num(DEFAULT_GRID_WIDTH), Num(DEFAULT_GRID_HEIGHT)>>,
     <<Num(12), Num(9)>>}

MovesOf(n) == Arr([i \in 1..n |-> Num((i * 3) % 5)])

MakePuzzle(g, ws, ts, bs) ==
    [t |-> "object", id |-> Num(42),
     grid_width |-> g[1], grid_height |-> g[2],
     knight_a_start |-> Coord(0, 0), knight_b_start |-> Coord(10, 0),
     goal_a |-> Coord(10, 6), goal_b |-> Coord(0, 6),
     walls |-> ws, static_tnt |-> ts, moving_barrels |-> bs]

\* Puzzles that vary the walls and the static TNT, and puzzles that vary the
\* barrels.
NormPuzzles ==
    {MakePuzzle(g, ws, ts, bs) :
        g \in GridChoices, ws \in WallLists, ts \in TntLists,
        bs \in {Undefined, Arr(<<Barrel(CoordList(2, 2))>>)}}
    \cup
    {MakePuzzle(g, ws, CoordList(1, 1), bs) :
        g \in GridChoices, ws \in {Undefined, CoordList(1, 0)}, bs \in BarrelLists}

----------------------------------------------------------------------------
(* The environment of the worker *)

MaxRequests == 2

Requests == 1..MaxRequests

\* The bytes the key file may hold. The file at ZKEY_PATH does not change while
\* ZKEY_CACHE_NAME stays the same (line 26).
Payloads == {<<1, 2, 3>>, <<7, 7>>}

\* The body of a response that is not the key file (an error page).
ErrorBody == <<0>>

WellFormedPuzzle ==
    MakePuzzle(<<Num(DEFAULT_GRID_WIDTH), Num(DEFAULT_GRID_HEIGHT)>>,
               CoordList(1, 0), Undefined, Undefined)

Message(moves, puzzle) ==
    [t |-> "object", moves |-> moves, puzzle |-> puzzle, tick_count |-> Num(2)]

\* What a caller may post: a well-formed request, a request without a puzzle,
\* a request whose puzzle lacks knight_a_start, and a message without data.
MessageData ==
    {Message(MovesOf(MovesLen), WellFormedPuzzle),
     Message(MovesOf(MovesLen), Undefined),
     Message(MovesOf(MovesLen),
             [WellFormedPuzzle EXCEPT !.knight_a_start = Undefined]),
     Null}

\* How fetch(ZKEY_PATH) may settle: a response with a status, or a rejection
\* (a network error).
FetchOutcomes ==
    {[kind |-> "response", status |-> 200, statusText |-> "OK"],
     [kind |-> "response", status |-> 500, statusText |-> "Internal Server Error"],
     [kind |-> "reject"]}

\* The values a failing snarkjs.groth16.fullProve may throw: an Error with a
\* message, an Error with an empty message, a string, null, and an object
\* whose message is not a string.
ThrownValues ==
    {Obj(Str("Witness generation failed")), Obj(Str("")), Str("out of memory"),
     Null, Obj(Num(42))}

\* What fullProve resolves to; the worker does not look into it.
ProofArtifact == [proof |-> "pi_a pi_b pi_c", publicSignals |-> "signals"]

----------------------------------------------------------------------------
(* fetchZkeyBytes and self.onmessage *)

NoEntry == [present |-> FALSE]
Entry(body) == [present |-> TRUE, body |-> body]

\* res.ok
Ok(response) == response.status >= 200 /\ response.status <= 299

\* new Error(`Failed to fetch zkey: ${res.status} ${res.statusText}`)
FetchError(response) ==
    Obj(Str("Failed to fetch zkey: " \o DecStr(response.status) \o " "
            \o response.statusText))

\* error.message, for a value that has properties
MessageOf(error) == IF error.t = "object" THEN error.message ELSE Undefined

\* Reading a property of null or undefined throws a TypeError.
PropertyReadThrows(v) == v.t \in {"null", "undefined"}

\* error.message || 'Unknown error during proof generation'
ErrorField(error) ==
    Or(MessageOf(error), Str("Unknown error during proof generation"))

\* self.postMessage(msg), as called by the invocation handling request r
PostMessage(r, msg) == posted' = Append(posted, [id |-> r, msg |-> msg])

\* An exception leaves the async handler: its promise is rejected, and nothing
\* is posted.
Escape(r, st) ==
    /\ pc' = [pc EXCEPT ![r] = "rejected"]
    /\ stages' = [stages EXCEPT ![r] = st \o <<"Crashed">>]
    /\ posted' = posted

\* The catch clause (lines 171-176), reached with the thrown value `error`.
Catch(r, error, st) ==
    /\ thrown' = [thrown EXCEPT ![r] = [caught |-> TRUE, value |-> error]]
    /\ IF PropertyReadThrows(error)
       THEN Escape(r, st)
       ELSE /\ PostMessage(r, [error |-> ErrorField(error)])
            /\ pc' = [pc EXCEPT ![r] = "returned"]
            /\ stages' = [stages EXCEPT ![r] = st \o <<"Failed">>]

\* The caller posts a message to the worker.
Send(d) ==
    /\ sent < MaxRequests
    /\ sent' = sent + 1
    /\ inbox' = Append(inbox, [id |-> sent + 1, data |-> d])
    /\ UNCHANGED <<normVars, delivered, pc, data, input, res, zkeyBytes, cache,
                   server, posted, histVars>>

\* The inbox without its i-th event.
Without(q, i) == [j \in 1..(Len(q) - 1) |-> IF j < i THEN q[j] ELSE q[j + 1]]

\* self.onmessage runs on the i-th queued event up to its first await: the
\* destructuring of e.data (line 141), the logging (lines 144-150),
\* buildCircuitInput (line 153) and the call of fetchZkeyBytes up to
\* `await caches.open` (lines 156, 36).
DeliverAt(i) ==
    /\ inbox # <<>>
    /\ LET e == inbox[i]
           r == e.id
           d == e.data
           st == stages[r] \o <<"Normalizing">>
       IN  /\ inbox' = Without(inbox, i)
           /\ delivered' = delivered + 1
           /\ data' = [data EXCEPT ![r] = d]
           /\ IF PropertyReadThrows(d)
              THEN /\ Escape(r, stages[r])
                   /\ UNCHANGED <<input, thrown, afterFirst>>
              ELSE IF PropertyReadThrows(d.puzzle)
              THEN /\ Catch(r, Obj(Str("Cannot read properties of undefined")), st)
                   /\ UNCHANGED <<input, afterFirst>>
              ELSE IF BuildThrows(d.moves, d.puzzle)
              THEN /\ Catch(r, Obj(Str("Cannot read properties of undefined")), st)
                   /\ UNCHANGED <<input, afterFirst>>
              ELSE /\ input' = [input EXCEPT ![r] =
                           buildCircuitInput(d.moves, d.puzzle, d.tick_count)]
                   /\ pc' = [pc EXCEPT ![r] = "match"]
                   /\ stages' = [stages EXCEPT ![r] = st \o <<"FetchingKey">>]
                   /\ afterFirst' = [afterFirst EXCEPT ![r] = firstBytes.done]
                   /\ UNCHANGED <<posted, thrown>>
    /\ UNCHANGED <<normVars, sent, res, zkeyBytes, cache, server, fetches, puts,
                   proveCalls, lookup, firstBytes>>

\* Mutant of Deliver: the newest queued event is handled first.
DeliverNewest == DeliverAt(Len(inbox))

\* Message events are handled in the order the worker received them.
Deliver == DeliverAt(1)

\* fetchZkeyBytes returns `bytes` to the handler, which calls fullProve
\* (lines 40 or 47, then 160).
ReturnBytes(r, bytes) ==
    /\ zkeyBytes' = [zkeyBytes EXCEPT ![r] = [got |-> TRUE, bytes |-> bytes]]
    /\ firstBytes' =
           IF firstBytes.done THEN firstBytes ELSE [done |-> TRUE, bytes |-> bytes]
    /\ proveCalls' = [proveCalls EXCEPT ![r] = @ + 1]
    /\ pc' = [pc EXCEPT ![r] = "prove"]
    /\ stages' = [stages EXCEPT ![r] = @ \o <<"Proving">>]

\* cache.match(ZKEY_PATH) settles (lines 37-43): on a hit the cached body is
\* returned, on a miss fetch(ZKEY_PATH) is called.
CacheMatch(r) ==
    /\ pc[r] = "match"
    /\ IF cache.present
       THEN /\ lookup' = [lookup EXCEPT ![r] = "hit"]
            /\ ReturnBytes(r, cache.body)
            /\ UNCHANGED fetches
       ELSE /\ lookup' = [lookup EXCEPT ![r] = "miss"]
            /\ fetches' = [fetches EXCEPT ![r] = @ + 1]
            /\ pc' = [pc EXCEPT ![r] = "fetch"]
            /\ UNCHANGED <<zkeyBytes, firstBytes, proveCalls, stages>>
    /\ UNCHANGED <<normVars, inbox, sent, delivered, data, input, res, cache,
                   server, posted, puts, thrown, afterFirst>>

\* Mutant of FetchSettle: res.ok is not tested, and every response is handed
\* to cache.put.
FetchSettleUnchecked(r, o) ==
    /\ pc[r] = "fetch"
    /\ IF o.kind = "reject"
       THEN /\ Catch(r, Obj(Str("Failed to fetch")), stages[r])
            /\ UNCHANGED res
       ELSE /\ res' = [res EXCEPT ![r] =
                          [status |-> o.status, statusText |-> o.statusText,
                           body |-> IF o.status = 200 THEN server ELSE ErrorBody]]
            /\ pc' = [pc EXCEPT ![r] = "put"]
            /\ UNCHANGED <<posted, stages, thrown>>
    /\ UNCHANGED <<normVars, inbox, sent, delivered, data, input, zkeyBytes, cache,
                   server, fetches, puts, proveCalls, afterFirst, lookup, firstBytes>>

\* fetch(ZKEY_PATH) settles (lines 43-45): a rejection and a response that is
\* not ok both reach the catch clause, an ok response is handed to cache.put.
FetchSettle(r, o) ==
    /\ pc[r] = "fetch"
    /\ IF o.kind = "reject"
       THEN /\ Catch(r, Obj(Str("Failed to fetch")), stages[r])
            /\ UNCHANGED res
       ELSE LET response == [status |-> o.status, statusText |-> o.statusText,
                             body |-> IF o.status = 200 THEN server ELSE ErrorBody]
            IN  /\ res' = [res EXCEPT ![r] = response]
                /\ IF ~Ok(response)
                   THEN Catch(r, FetchError(response), stages[r])
                   ELSE /\ pc' = [pc EXCEPT ![r] = "put"]
                        /\ UNCHANGED <<posted, stages, thrown>>
    /\ UNCHANGED <<normVars, inbox, sent, delivered, data, input, zkeyBytes, cache,
                   server, fetches, puts, proveCalls, afterFirst, lookup, firstBytes>>

\* Mutant of CachePut: the bytes are returned without cache.put.
CachePutSkipped(r, stored) ==
    /\ pc[r] = "put"
    /\ ReturnBytes(r, res[r].body)
    /\ UNCHANGED <<normVars, inbox, sent, delivered, data, input, res, server,
                   fetches, afterFirst, lookup, posted, thrown, cache, puts>>

\* Mutant of CachePut: the response itself is stored after its body was read
\* (no clone), so the entry holds an empty body.
CachePutConsumed(r, stored) ==
    /\ pc[r] = "put"
    /\ IF stored
       THEN /\ cache' = Entry(<<>>)
            /\ puts' = [puts EXCEPT ![r] = Append(@, <<>>)]
            /\ ReturnBytes(r, res[r].body)
            /\ UNCHANGED <<posted, thrown>>
       ELSE /\ Catch(r, Obj(Str("Quota exceeded.")), stages[r])
            /\ UNCHANGED <<cache, puts, zkeyBytes, firstBytes, proveCalls>>
    /\ UNCHANGED <<normVars, inbox, sent, delivered, data, input, res, server,
                   fetches, afterFirst, lookup>>

\* cache.put(ZKEY_PATH, res.clone()) settles (lines 45-47): the clone's body is
\* stored and the response's body is returned, or the store refuses the entry
\* (QuotaExceededError), which reaches the catch clause.
CachePut(r, stored) ==
    /\ pc[r] = "put"
    /\ IF stored
       THEN /\ cache' = Entry(res[r].body)
            /\ puts' = [puts EXCEPT ![r] = Append(@, res[r].body)]
            /\ ReturnBytes(r, res[r].body)
            /\ UNCHANGED <<posted, thrown>>
       ELSE /\ Catch(r, Obj(Str("Quota exceeded.")), stages[r])
            /\ UNCHANGED <<cache, puts, zkeyBytes, firstBytes, proveCalls>>
    /\ UNCHANGED <<normVars, inbox, sent, delivered, data, input, res, server,
                   fetches, afterFirst, lookup>>

\* snarkjs.groth16.fullProve settles (lines 160-176): the artifact is posted,
\* or the thrown value reaches the catch clause.
ProveSettle(r, o) ==
    /\ pc[r] = "prove"
    /\ IF o.ok
       THEN /\ PostMessage(r, [proof |-> o.value.proof,
                               publicSignals |-> o.value.publicSignals])
            /\ pc' = [pc EXCEPT ![r] = "returned"]
            /\ stages' = [stages EXCEPT ![r] = @ \o <<"Succeeded">>]
            /\ UNCHANGED thrown
       ELSE Catch(r, o.value, stages[r])
    /\ UNCHANGED <<normVars, inbox, sent, delivered, data, input, res, zkeyBytes,
                   cache, server, fetches, puts, proveCalls, afterFirst, lookup,
                   firstBytes>>

ProveOutcomes ==
    {[ok |-> TRUE, value |-> ProofArtifact]}
    \cup {[ok |-> FALSE, value |-> v] : v \in ThrownValues}

----------------------------------------------------------------------------
(* The normalizer on its own *)

Normalize ==
    /\ ~nOut.called
    /\ nOut' = [called |-> TRUE,
                value |-> buildCircuitInput(nMoves, nPuzzle, nTick)]
    /\ UNCHANGED <<nMoves, nPuzzle, nTick, workerVars, histVars>>

----------------------------------------------------------------------------
(* Specifications *)

WorkerInit ==
    /\ inbox = <<>>
    /\ sent = 0
    /\ delivered = 0
    /\ pc = [r \in Requests |-> "queued"]
    /\ data = [r \in Requests |-> Undefined]
    /\ input = [r \in Requests |-> Undefined]
    /\ res = [r \in Requests |-> Undefined]
    /\ zkeyBytes = [r \in Requests |-> [got |-> FALSE]]
    /\ posted = <<>>
    /\ stages = [r \in Requests |-> <<"Idle">>]
    /\ fetches = [r \in Requests |-> 0]
    /\ puts = [r \in Requests |-> <<>>]
    /\ proveCalls = [r \in Requests |-> 0]
    /\ thrown = [r \in Requests |-> [caught |-> FALSE]]
    /\ afterFirst = [r \in Requests |-> FALSE]
    /\ lookup = [r \in Requests |-> "none"]
    /\ firstBytes = [done |-> FALSE]

NormIdle ==
    /\ nMoves = Undefined
    /\ nPuzzle = Undefined
    /\ nTick = Undefined
    /\ nOut = [called |-> FALSE]

\* The worker after `Worker initialized and ready` (line 179). The cache
\* persists across sessions: it is empty, or holds the key file.
Init ==
    /\ NormIdle
    /\ WorkerInit
    /\ server \in Payloads
    /\ cache \in {NoEntry, Entry(server)}

Next ==
    \/ \E d \in MessageData : Send(d)
    \/ Deliver
    \/ \E r \in Requests : CacheMatch(r)
    \/ \E r \in Requests, o \in FetchOutcomes : FetchSettle(r, o)
    \/ \E r \in Requests, stored \in BOOLEAN : CachePut(r, stored)
    \/ \E r \in Requests, o \in ProveOutcomes : ProveSettle(r, o)

Spec == Init /\ [][Next]_vars

InitNorm ==
    /\ WorkerInit
    /\ server = <<1, 2, 3>>
    /\ cache = NoEntry
    /\ nMoves = MovesOf(MovesLen)
    /\ nTick = Num(MovesLen)
    /\ nPuzzle \in NormPuzzles
    /\ nOut = [called |-> FALSE]

NextNorm == Normalize

SpecNorm == InitNorm /\ [][NextNorm]_vars

----------------------------------------------------------------------------
(* Claims about buildCircuitInput (SpecNorm) *)

\* The number of entries of an input list that may be absent.
Count(list) == IF list = Undefined THEN 0 ELSE Len(list.v)

\* The sentinel pair of a puzzle: its grid dimensions, 11 and 7 when absent.
Sentinel(p) ==
    <<DecStr(IF p.grid_width = Undefined THEN 11 ELSE p.grid_width.v),
      DecStr(IF p.grid_height = Undefined THEN 7 ELSE p.grid_height.v)>>

\* `out` is `list` entry by entry, as decimal strings, then sentinels up to n.
PaddedCopy(out, list, n, p) ==
    /\ Len(out) = n
    /\ \A i \in 1..n :
           out[i] = IF i <= Count(list)
                    THEN <<DecStr(list.v[i].x.v), DecStr(list.v[i].y.v)>>
                    ELSE Sentinel(p)

BarrelsInRange(p) ==
    /\ Count(p.moving_barrels) <= 2
    /\ \A b \in 1..Count(p.moving_barrels) :
           /\ p.moving_barrels.v[b].path # Undefined
           /\ Len(p.moving_barrels.v[b].path.v) <= 16

\* C4: with 0, 1 or 2 barrels of at most 16 steps, barrel_paths and
\* barrel_path_lengths have 2 entries; a slot with a barrel records its true
\* path length and its path followed by sentinels up to 16; a slot without a
\* barrel records "1" and 16 sentinels.
C4_BarrelSlots ==
    (nOut.called /\ BarrelsInRange(nPuzzle)) =>
        /\ Len(nOut.value.barrel_paths) = 2
        /\ Len(nOut.value.barrel_path_lengths) = 2
        /\ \A b \in 1..2 :
               IF b <= Count(nPuzzle.moving_barrels)
               THEN LET path == nPuzzle.moving_barrels.v[b].path
                    IN  /\ nOut.value.barrel_path_lengths[b] = DecStr(Len(path.v))
                        /\ PaddedCopy(nOut.value.barrel_paths[b], path, 16, nPuzzle)
               ELSE /\ nOut.value.barrel_path_lengths[b] = "1"
                    /\ PaddedCopy(nOut.value.barrel_paths[b], Undefined, 16, nPuzzle)

\* C4's case: one barrel with a 12-step path was normalized; the second slot
\* is a dummy.
C4_Witness ==
    /\ nOut.called
    /\ Count(nPuzzle.moving_barrels) = 1
    /\ nPuzzle.moving_barrels.v[1].path # Undefined
    /\ nOut.value.barrel_path_lengths = <<"12", "1">>
    /\ nOut.value.barrel_paths[1][12] # nOut.value.barrel_paths[1][13]

\* C5: whatever the puzzle supplies, walls has length 26, static_tnt 8,
\* barrel_paths and barrel_path_lengths 2, and every barrel path 16.
C5_FixedLengths ==
    nOut.called =>
        /\ Len(nOut.value.walls) = 26
        /\ Len(nOut.value.static_tnt) = 8
        /\ Len(nOut.value.barrel_paths) = 2
        /\ Len(nOut.value.barrel_path_lengths) = 2
        /\ \A b \in 1..2 : Len(nOut.value.barrel_paths[b]) = 16

----------------------------------------------------------------------------
(* Claims about the worker (Spec) *)

\* The positions in `posted` of the messages posted for request r.
ResponsesOf(r) == {i \in 1..Len(posted) : posted[i].id = r}

\* The handler invocation of request r has ended.
Terminated(r) == pc[r] \in {"returned", "rejected"}

\* C1: a request whose handler has ended got exactly one response, no request
\* ever has two, and no exception leaves the handler.
C1_ExactlyOneResponse ==
    \A r \in Requests :
        /\ Cardinality(ResponsesOf(r)) <= 1
        /\ pc[r] # "rejected"
        /\ Terminated(r) => Cardinality(ResponsesOf(r)) = 1

\* Normalization, key retrieval and the proving call of request r all
\* succeeded: nothing was thrown.
AllSucceeded(r) == ~thrown[r].caught

\* C2: a response carries proof and publicSignals and no error field exactly
\* when nothing failed, and only an error field holding a string otherwise.
C2_ResponseShape ==
    \A i \in 1..Len(posted) :
        LET m == posted[i].msg
        IN  IF AllSucceeded(posted[i].id)
            THEN DOMAIN m = {"proof", "publicSignals"}
            ELSE DOMAIN m = {"error"} /\ m.error.t = "string"

\* C6: a retrieval that starts after a retrieval has completed performs no
\* network fetch and returns the bytes the first completed retrieval returned.
C6_CachedAfterFirst ==
    \A r \in Requests :
        afterFirst[r] =>
            /\ fetches[r] = 0
            /\ lookup[r] \in {"none", "hit"}
            /\ zkeyBytes[r].got => zkeyBytes[r].bytes = firstBytes.bytes

\* C6's case: one retrieval downloaded and stored the key, and a retrieval
\* that started after it has returned its bytes.
C6_Witness ==
    \E a, b \in Requests :
        /\ puts[a] # <<>>
        /\ afterFirst[b]
        /\ zkeyBytes[b].got
        /\ lookup[b] = "hit"

\* The lookup of request r missed and its fetch reported a status that is not
\* a success.
StatusFailed(r) == lookup[r] = "miss" /\ res[r] # Undefined /\ ~Ok(res[r])

\* C7: on a miss followed by a non-success status, the retrieval fails with an
\* error carrying the status, writes no cache entry, fetches once, never calls
\* the proving routine, and the request's one response is that error.
C7_FetchFailure ==
    \A r \in Requests :
        StatusFailed(r) =>
            LET text == "Failed to fetch zkey: " \o DecStr(res[r].status) \o " "
                            \o res[r].statusText
            IN  /\ thrown[r] = [caught |-> TRUE, value |-> Obj(Str(text))]
                /\ puts[r] = <<>>
                /\ fetches[r] = 1
                /\ proveCalls[r] = 0
                /\ ~zkeyBytes[r].got
                /\ pc[r] = "returned"
                /\ \E i \in 1..Len(posted) :
                       /\ ResponsesOf(r) = {i}
                       /\ posted[i].msg = [error |-> Str(text)]

\* C7's case: a request missed the cache, got status 500, and the cache is
\* still empty.
C7_Witness ==
    \E r \in Requests :
        /\ StatusFailed(r)
        /\ res[r].status = 500
        /\ ~cache.present
        /\ Terminated(r)

\* C8: responses are emitted in the order the requests were delivered.
C8_ResponsesInDeliveryOrder ==
    \A i, j \in 1..Len(posted) : i < j => posted[i].id < posted[j].id

\* Request r was taken up and its handler never suspended.
NeverSuspended(r) == Terminated(r) /\ lookup[r] = "none" /\ stages[r] # <<"Idle">>

\* C8, amended: requests are taken up in the order received, and a request
\* whose handler never suspends is answered before any request received after
\* it.
C8_TakenUpInOrder ==
    \A a, b \in Requests :
        a < b =>
            /\ pc[b] # "queued" => pc[a] # "queued"
            /\ \A i \in ResponsesOf(a), j \in ResponsesOf(b) :
                   NeverSuspended(a) => i < j

\* C8's case: the first request failed in normalization and was answered, and
\* the second, delivered after it, was answered after a suspension.
C8_Witness ==
    /\ Len(posted) = 2
    /\ posted[1].id = 1
    /\ posted[2].id = 2
    /\ NeverSuspended(1)
    /\ lookup[2] # "none"

\* The stage paths of the state machine
\* Idle -> Normalizing -> FetchingKey -> Proving -> {Succeeded | Failed}.
StagePaths ==
    {<<"Idle">>,
     <<"Idle", "Normalizing">>,
     <<"Idle", "Normalizing", "Failed">>,
     <<"Idle", "Normalizing", "FetchingKey">>,
     <<"Idle", "Normalizing", "FetchingKey", "Failed">>,
     <<"Idle", "Normalizing", "FetchingKey", "Proving">>,
     <<"Idle", "Normalizing", "FetchingKey", "Proving", "Succeeded">>,
     <<"Idle", "Normalizing", "FetchingKey", "Proving", "Failed">>}

\* C9: every request follows the state machine, calls the proving routine at
\* most once and only with the key bytes, ends in Succeeded or Failed, and has
\* at most one response.
C9_StageMachine ==
    \A r \in Requests :
        /\ stages[r] \in StagePaths
        /\ proveCalls[r] <= 1
        /\ proveCalls[r] = 1 => zkeyBytes[r].got
        /\ Terminated(r) =>
               stages[r][Len(stages[r])] \in {"Succeeded", "Failed"}
        /\ Cardinality(ResponsesOf(r)) <= 1

\* What holds of the cache and the retrievals in every state.
C10_State ==
    \A r \in Requests :
        /\ puts[r] # <<>> =>
               /\ lookup[r] = "miss"
               /\ res[r] # Undefined /\ Ok(res[r])
               /\ Len(puts[r]) = 1
               /\ zkeyBytes[r].got /\ zkeyBytes[r].bytes = puts[r][1]
        /\ fetches[r] <= 1

\* What holds of every step: the cache changes only by a put of a retrieval,
\* and an entry that is present stays present.
C10_Step ==
    /\ cache' # cache =>
           \E r \in Requests : puts'[r] = Append(puts[r], cache'.body)
    /\ cache.present => cache'.present

\* C10: the cache is written only by a retrieval that missed and whose fetch
\* succeeded, with the bytes returned to that caller; a retrieval fetches at
\* most once; an entry is never deleted.
C10_CacheDiscipline == []C10_State /\ [][C10_Step]_vars

\* C10's case: a retrieval has written the cache and returned, and another has
\* hit the entry.
C10_Witness ==
    \E a, b \in Requests :
        /\ a # b
        /\ puts[a] # <<>>
        /\ cache.present
        /\ lookup[b] = "hit"

====
